---------------------------- MODULE Spec2Model ----------------------------
(***************************************************************************)
(* Model of the SafeSpread quoting engine (strategies/safe_spread.py) and  *)
(* of its orchestrator SafeSpreadStrategy (safe_spread_strategy.py).       *)
(*                                                                         *)
(* Numbers.  The program computes with floats; the model computes with     *)
(* exact decimals held in integers:                                        *)
(*   prices      in 1/1000          (480 is 0.48)                          *)
(*   sizes       in 1/1000 token    (15000 is 15.0)                        *)
(*   collateral  in 1/1000000       (a price times a size)                 *)
(* A quotient that is not an integer is carried as numerator and           *)
(* denominator until the code rounds it.  round(x, MAX_DECIMALS) is        *)
(* round-half-to-even onto the grid of 10^-MAX_DECIMALS, as Python         *)
(* documents it; the binary representation error of a float is not         *)
(* modelled.                                                               *)
(***************************************************************************)
EXTENDS Integers, Sequences, FiniteSets, TLC

VARIABLES
    cfg,    \* the configuration the engine was constructed with
    mm,     \* the engine's live context: _balances and _free_collateral
    last    \* the call the engine is returning from, or [op |-> "idle"]

vars == <<cfg, mm, last>>

---------------------------------------------------------------------------
(* poly_market_maker.constants, token and order (imported, not in src/) *)

MIN_TICK == 10
MIN_SIZE == 15000
MAX_DECIMALS == 2

\* one unit of 10^-MAX_DECIMALS, in thousandths
Grid == 10 ^ (3 - MAX_DECIMALS)
\* the price 1.0, in thousandths
One == 10 ^ 3

Token == <<"A", "B">>
Tokens == {Token[i] : i \in DOMAIN Token}
complement(t) == IF t = "A" THEN "B" ELSE "A"

BUY == "BUY"
SELL == "SELL"

\* the id of an order that is not resting yet (None)
NoId == 0

Order(id, price, size, side, token) ==
    [id |-> id, price |-> price, size |-> size, side |-> side, token |-> token]

---------------------------------------------------------------------------
(* arithmetic *)

Max(a, b) == IF a >= b THEN a ELSE b
Min(a, b) == IF a <= b THEN a ELSE b
Abs(a) == IF a >= 0 THEN a ELSE -a

\* n/d (d > 0) rounded to the nearest integer, a tie to the even one
RoundHalfEven(n, d) ==
    LET q == n \div d
        r == n - q * d
    IN  IF 2 * r < d THEN q
        ELSE IF 2 * r > d THEN q + 1
        ELSE IF q % 2 = 0 THEN q ELSE q + 1

\* round(num/den, MAX_DECIMALS): a multiple of Grid
round(num, den) == RoundHalfEven(num, den * Grid) * Grid

\* _round_price(num/den)
round_price(num, den) ==
    LET lo == MIN_TICK * den
        hi == (One - MIN_TICK) * den
        clamped == Max(lo, Min(hi, num))
    IN  round(clamped, den)

clamp(x, lo, hi) == Max(lo, Min(hi, x))

---------------------------------------------------------------------------
(* SafeSpread: math helpers *)

\* base_mid - balances[token] * skew_per_unit, in 10^-9, over SkewDen
SkewDen == 10 ^ 6

mid_with_skew(c, balances, base_mid, token) ==
    LET inv == balances[token]
        skew == inv * c.skew_per_unit
    IN  round_price(base_mid * SkewDen - skew, SkewDen)

\* half = override if set else target_spread / 2, as <<numerator, denominator>>;
\* half_spread_override is <<>> for None and <<h>> for the number h
half_spread(c) ==
    LET half == IF c.half_spread_override # <<>>
                THEN <<c.half_spread_override[1], 1>>
                ELSE <<c.target_spread, 2>>
    IN  IF half[1] >= MIN_TICK * half[2] THEN half ELSE <<MIN_TICK, 1>>

desired_quotes(c, mid) ==
    LET half == half_spread(c)
        bid == round_price(mid * half[2] - half[1], half[2])
        ask == round_price(mid * half[2] + half[1], half[2])
    IN  IF ask <= bid THEN <<bid, round_price(bid + MIN_TICK, 1)>>
        ELSE <<bid, ask>>

\* the (bid_target, ask_target) both phases compute
targets(c, balances, target_price, buy_token) ==
    desired_quotes(c, mid_with_skew(c, balances, target_price, buy_token))

---------------------------------------------------------------------------
(* sequences *)

RECURSIVE SumSeq(_)
SumSeq(s) == IF s = <<>> THEN 0 ELSE Head(s) + SumSeq(Tail(s))

Contains(s, x) == \E i \in DOMAIN s : s[i] = x

\* [f(x) for x in s]
RECURSIVE MapNotional(_)
MapNotional(s) ==
    IF s = <<>> THEN <<>>
    ELSE <<Head(s).size * Head(s).price>> \o MapNotional(Tail(s))

RECURSIVE MapSize(_)
MapSize(s) == IF s = <<>> THEN <<>> ELSE <<Head(s).size>> \o MapSize(Tail(s))

\* s[n:] of Python, n >= 0
Drop(s, n) == IF n >= Len(s) THEN <<>> ELSE SubSeq(s, n + 1, Len(s))

---------------------------------------------------------------------------
(* SafeSpread: cancellation *)

\* SELL on complement is expressed in buy_token price space as (1 - price)
effective_price(order) ==
    IF order.side = BUY THEN order.price ELSE round(One - order.price, 1)

closeness(o, bid_target, ask_target) ==
    Abs(effective_price(o) - (IF o.side = BUY THEN bid_target ELSE ask_target))

\* list.sort(key=closeness): stable, ascending
RECURSIVE InsertByKey(_, _, _, _)
InsertByKey(sorted, o, bid_target, ask_target) ==
    IF sorted = <<>> THEN <<o>>
    ELSE IF closeness(Head(sorted), bid_target, ask_target)
                <= closeness(o, bid_target, ask_target)
         THEN <<Head(sorted)>> \o InsertByKey(Tail(sorted), o, bid_target, ask_target)
         ELSE <<o>> \o sorted

RECURSIVE SortByCloseness(_, _, _)
SortByCloseness(s, bid_target, ask_target) ==
    IF s = <<>> THEN <<>>
    ELSE InsertByKey(SortByCloseness(SubSeq(s, 1, Len(s) - 1), bid_target, ask_target),
                     s[Len(s)], bid_target, ask_target)

\* deduce buy_token from any BUY; else fall back to SELL's complement
deduce_buy_token(orders) ==
    IF \E i \in DOMAIN orders : orders[i].side = BUY
    THEN orders[CHOOSE i \in DOMAIN orders :
                    /\ orders[i].side = BUY
                    /\ \A j \in 1..(i - 1) : orders[j].side # BUY].token
    ELSE IF \E i \in DOMAIN orders : orders[i].side = SELL
    THEN complement(orders[CHOOSE i \in DOMAIN orders :
                    /\ orders[i].side = SELL
                    /\ \A j \in 1..(i - 1) : orders[j].side # SELL].token)
    ELSE "None"

far_aways(c, orders, bid_target, ask_target) ==
    SelectSeq(orders, LAMBDA o :
        closeness(o, bid_target, ask_target) > c.cancel_if_away_by)

\* a bug: the kept orders are not sorted by closeness
keep_side_unsorted(c, orders, side, bid_target, ask_target) ==
    LET far == far_aways(c, orders, bid_target, ask_target)
    IN  SelectSeq(orders, LAMBDA o : o.side = side /\ ~Contains(far, o))

keep_side(c, orders, side, bid_target, ask_target) ==
    LET far == far_aways(c, orders, bid_target, ask_target)
        keep == SelectSeq(orders, LAMBDA o : o.side = side /\ ~Contains(far, o))
    IN  SortByCloseness(keep, bid_target, ask_target)

\* a bug: the slice starts one order too late
cancel_extra_one_late(keep, max_count) ==
    IF Len(keep) > max_count THEN Drop(keep, max_count + 1) ELSE <<>>

cancel_extra(keep, max_count) ==
    IF Len(keep) > max_count THEN Drop(keep, max_count) ELSE <<>>

cancellable_orders(c, balances, orders, target_price) ==
    IF orders = <<>> THEN <<>>
    ELSE LET buy_token == deduce_buy_token(orders)
         IN  IF buy_token = "None" THEN <<>>
             ELSE LET q == targets(c, balances, target_price, buy_token)
                  IN  far_aways(c, orders, q[1], q[2])
                      \o cancel_extra(keep_side(c, orders, BUY, q[1], q[2]), c.max_bids)
                      \o cancel_extra(keep_side(c, orders, SELL, q[1], q[2]), c.max_asks)

---------------------------------------------------------------------------
(* SafeSpread: caps & sizing *)

MinPlace(c) == Max(c.min_place_size, MIN_SIZE)

can_place_ask(c, token_balance) == token_balance >= MinPlace(c)

ask_size(c, balances, token_balance, token) ==
    LET size0 == Min(c.order_size, token_balance)
        inv == balances[token]
        size == IF inv > c.max_inventory_per_token
                THEN Max(size0, Min(inv - c.max_inventory_per_token, token_balance))
                ELSE size0
    IN  round(clamp(size, MIN_SIZE, token_balance), 1)

can_place_bid(c, balances, collateral_balance, price, buy_token) ==
    /\ ~(collateral_balance < price * MinPlace(c))
    /\ ~(price * c.order_size > c.max_notional_per_side)
    /\ ~(balances[buy_token] >= c.max_inventory_per_token)

\* the upper clamp of _bid_size, in whole tokens
BidSizeCap == 10 ^ 9

\* every candidate size is carried over the denominator price
bid_size(c, balances, collateral_balance, price, buy_token) ==
    LET max_by_cash == collateral_balance
        max_by_notional == c.max_notional_per_side
        inv_now == balances[buy_token]
        headroom == Max(0, c.max_inventory_per_token - inv_now)
        size == Min(Min(c.order_size * price, max_by_cash),
                    Min(max_by_notional, headroom * price))
        lo == Max(MIN_SIZE * price, size)
    IN  IF lo \div (price * One) >= BidSizeCap
        THEN round(BidSizeCap * One, 1)
        ELSE round(lo, price)

---------------------------------------------------------------------------
(* SafeSpread: placement *)

\* a bug: only an order exactly at the target counts as near
has_near_exact(orders, side, price_buy_space) ==
    \E i \in DOMAIN orders :
        /\ orders[i].side = side
        /\ (IF side = BUY THEN orders[i].price
            ELSE round(One - orders[i].price, 1)) = price_buy_space

has_near(orders, side, price_buy_space) ==
    \E i \in DOMAIN orders :
        /\ orders[i].side = side
        /\ Abs((IF side = BUY THEN orders[i].price
                ELSE round(One - orders[i].price, 1)) - price_buy_space) <= MIN_TICK

new_ask(c, balances, orders, token_balance, ask_target, buy_token) ==
    LET sell_token == complement(buy_token)
        sell_price_actual == round_price(One - ask_target, 1)
        size == ask_size(c, balances, token_balance, sell_token)
    IN  IF /\ ~has_near(orders, SELL, ask_target)
           /\ can_place_ask(c, token_balance)
           /\ size >= MinPlace(c)
        THEN <<Order(NoId, sell_price_actual, size, SELL, sell_token)>>
        ELSE <<>>

new_bid(c, balances, orders, collateral_balance, bid_target, buy_token) ==
    IF /\ ~has_near(orders, BUY, bid_target)
       /\ can_place_bid(c, balances, collateral_balance, bid_target, buy_token)
       /\ bid_size(c, balances, collateral_balance, bid_target, buy_token) >= MinPlace(c)
    THEN <<Order(NoId, bid_target,
                 bid_size(c, balances, collateral_balance, bid_target, buy_token),
                 BUY, buy_token)>>
    ELSE <<>>

new_orders(c, balances, orders, collateral_balance, token_balance, target_price, buy_token) ==
    LET q == targets(c, balances, target_price, buy_token)
    IN  new_ask(c, balances, orders, token_balance, q[2], buy_token)
        \o new_bid(c, balances, orders, collateral_balance, q[1], buy_token)

---------------------------------------------------------------------------
(* SafeSpreadStrategy *)

Collateral == "Collateral"

orders_by_corresponding_buy_token(orders, buy_token) ==
    SelectSeq(orders, LAMBDA o :
        \/ (o.side = BUY /\ o.token = buy_token)
        \/ (o.side = SELL /\ o.token # buy_token))

\* cancel phase: for token in Token, from index i on
RECURSIVE cancel_phase(_, _, _, _, _)
cancel_phase(c, balances, orders, target_prices, i) ==
    IF i > Len(Token) THEN <<>>
    ELSE cancellable_orders(c, balances,
                            orders_by_corresponding_buy_token(orders, Token[i]),
                            target_prices[Token[i]])
         \o cancel_phase(c, balances, orders, target_prices, i + 1)

open_orders(orders, orders_to_cancel) ==
    SelectSeq(orders, LAMBDA o : ~Contains(orders_to_cancel, o))

buy_notional(orders) ==
    SumSeq(MapNotional(SelectSeq(orders, LAMBDA o : o.side = BUY)))

free_collateral_balance(orders, orders_to_cancel, balances) ==
    balances[Collateral] - buy_notional(open_orders(orders, orders_to_cancel))

locked_sells(orders, t) ==
    SumSeq(MapSize(SelectSeq(orders, LAMBDA o : o.side = SELL /\ o.token = t)))

free_token_balance_by_token(orders, orders_to_cancel, balances) ==
    [t \in Tokens |->
        balances[t] - locked_sells(open_orders(orders, orders_to_cancel), t)]

\* placement phase: for token in Token, from index i on, threading the free collateral
RECURSIVE placement_phase(_, _, _, _, _, _, _)
placement_phase(c, balances, orders, free_token, target_prices, i, free_collateral) ==
    IF i > Len(Token) THEN <<>>
    ELSE LET token == Token[i]
             new == new_orders(c, balances,
                               orders_by_corresponding_buy_token(orders, token),
                               free_collateral, free_token[complement(token)],
                               target_prices[token], token)
         IN  new \o placement_phase(c, balances, orders, free_token, target_prices,
                                    i + 1, free_collateral - buy_notional(new))

\* the context get_orders publishes: total balances per token
context_balances(balances) == [t \in Tokens |-> balances[t]]

\* get_orders on an engine whose context still holds `held` (the balances of the
\* previous set_context, or of construction)
get_orders(c, held, orders, balances, target_prices) ==
    LET orders_to_cancel == cancel_phase(c, held, orders, target_prices, 1)
        free == free_collateral_balance(orders, orders_to_cancel, balances)
        free_token == free_token_balance_by_token(orders, orders_to_cancel, balances)
        published == context_balances(balances)
    IN  [cancel |-> orders_to_cancel,
         place |-> placement_phase(c, published, orders, free_token,
                                   target_prices, 1, free),
         balances |-> published,
         free_collateral |-> free]

\* the targets the cancel phase computes for the pair of `token`:
\* <<>> when cancellable_orders returns before computing them
cancel_targets(c, held, orders, target_prices, token) ==
    LET mine == orders_by_corresponding_buy_token(orders, token)
    IN  IF mine = <<>> \/ deduce_buy_token(mine) = "None" THEN <<>>
        ELSE <<targets(c, held, target_prices[token], deduce_buy_token(mine))>>

\* the targets the placement phase computes for the pair of `token`
place_targets(c, published, target_prices, token) ==
    targets(c, published, target_prices[token], token)

---------------------------------------------------------------------------
(* configurations: SafeSpread.__init__ *)

\* the documented defaults, in the model's units
DefaultCfg ==
    [target_spread |-> 30,
     half_spread_override |-> <<>>,
     order_size |-> 10000,
     max_bids |-> 2,
     max_asks |-> 2,
     cancel_if_away_by |-> 20,
     max_inventory_per_token |-> 40000,
     max_notional_per_side |-> 120000000,
     skew_per_unit |-> 500,
     min_place_size |-> 100]

\* the defaults with the spread of the specification's example scenario (0.04):
\* bid and ask targets then fall on the price grid without a rounding tie
BaseCfg == [DefaultCfg EXCEPT !.target_spread = 40]

\* the context of a newly constructed engine
InitContext == [balances |-> [t \in Tokens |-> 0], free_collateral |-> 0]

Idle == [op |-> "idle"]

InitWith(configs) ==
    /\ cfg \in configs
    /\ mm = InitContext
    /\ last = Idle

---------------------------------------------------------------------------
(* inputs *)

\* the longest order list handed to a call
MaxOrders == 3

\* every sequence over S of length at most n
RECURSIVE SeqsUpTo(_, _)
SeqsUpTo(S, n) ==
    IF n = 0 THEN {<<>>}
    ELSE LET shorter == SeqsUpTo(S, n - 1)
         IN  shorter \cup {Append(s, x) : s \in {t \in shorter : Len(t) = n - 1}, x \in S}

\* a list of <<side, price, size>> as the resting orders of the pair of buy_token:
\* BUYs on buy_token, SELLs on its complement, each order with its own id
PairOrders(list, buy_token) ==
    [i \in DOMAIN list |->
        Order(i, list[i][2], list[i][3], list[i][1],
              IF list[i][1] = BUY THEN buy_token ELSE complement(buy_token))]

\* a list of <<side, token, price, size>> as an order book
BookOrders(list) ==
    [i \in DOMAIN list |-> Order(i, list[i][3], list[i][4], list[i][1], list[i][2])]

Balances(a, b, collateral) ==
    [k \in Tokens \cup {Collateral} |->
        IF k = "A" THEN a ELSE IF k = "B" THEN b ELSE collateral]

TokenBalances(a, b) == [t \in Tokens |-> IF t = "A" THEN a ELSE b]

TargetPrices(a, b) == [t \in Tokens |-> IF t = "A" THEN a ELSE b]

---------------------------------------------------------------------------
(* calls on the engine; a call starts when the previous one has returned *)

Return ==
    /\ last.op # "idle"
    /\ last' = Idle
    /\ UNCHANGED <<cfg, mm>>

SetContext(balances, free_collateral) ==
    /\ last.op = "idle"
    /\ mm' = [balances |-> balances, free_collateral |-> free_collateral]
    /\ UNCHANGED <<cfg, last>>

DesiredQuotes(mid) ==
    /\ last.op = "idle"
    /\ last' = [op |-> "desired_quotes", mid |-> mid,
                quotes |-> desired_quotes(cfg, mid)]
    /\ UNCHANGED <<cfg, mm>>

CancellableOrders(orders, target_price) ==
    /\ last.op = "idle"
    /\ last' = [op |-> "cancellable_orders", orders |-> orders,
                target_price |-> target_price,
                cancel |-> cancellable_orders(cfg, mm.balances, orders, target_price)]
    /\ UNCHANGED <<cfg, mm>>

NewOrders(orders, collateral_balance, token_balance, target_price, buy_token) ==
    /\ last.op = "idle"
    /\ last' = [op |-> "new_orders", orders |-> orders,
                collateral_balance |-> collateral_balance,
                token_balance |-> token_balance,
                target_price |-> target_price, buy_token |-> buy_token,
                place |-> new_orders(cfg, mm.balances, orders, collateral_balance,
                                     token_balance, target_price, buy_token)]
    /\ UNCHANGED <<cfg, mm>>

GetOrders(orders, balances, target_prices) ==
    /\ last.op = "idle"
    /\ \E r \in {get_orders(cfg, mm.balances, orders, balances, target_prices)} :
           /\ mm' = [balances |-> r.balances, free_collateral |-> r.free_collateral]
           /\ last' = [op |-> "get_orders", orders |-> orders, balances |-> balances,
                       target_prices |-> target_prices,
                       held |-> mm.balances,
                       cancel |-> r.cancel, place |-> r.place,
                       cancel_targets |->
                           [t \in Tokens |->
                               cancel_targets(cfg, mm.balances, orders, target_prices, t)],
                       place_targets |->
                           [t \in Tokens |->
                               place_targets(cfg, r.balances, target_prices, t)]]
    /\ UNCHANGED cfg

---------------------------------------------------------------------------
(* Spec: a strategy runs get_orders cycles *)

CycleConfigs == {BaseCfg, [BaseCfg EXCEPT !.order_size = 20000]}

\* <<side, token, price, size>> of resting orders
BookPool ==
    {<<BUY, "A", 485, 15000>>, <<SELL, "B", 420, 15000>>,
     <<BUY, "B", 480, 15000>>, <<SELL, "A", 480, 15000>>}

CycleBooks == {BookOrders(l) : l \in SeqsUpTo(BookPool, MaxOrders)}

CycleBalances ==
    {Balances(0, 0, 100000000), Balances(0, 15006, 7203000),
     Balances(40000, 15006, 100000000), Balances(40000, 0, 50000000)}

CycleTargets == {TargetPrices(500, 504)}

Init == InitWith(CycleConfigs)

Next ==
    \/ \E orders \in CycleBooks, balances \in CycleBalances,
          target_prices \in CycleTargets :
            GetOrders(orders, balances, target_prices)
    \/ Return

Spec == Init /\ [][Next]_vars

---------------------------------------------------------------------------
(* what a cycle starts from, read off the call's inputs and its cancel list *)

\* the resting orders of the book that are not in this cycle's cancel list
Remaining == SelectSeq(last.orders, LAMBDA o : ~Contains(last.cancel, o))

\* collateral balance minus the notional of the remaining resting BUYs
FreeCollateralAtStart ==
    last.balances[Collateral]
        - SumSeq(MapNotional(SelectSeq(Remaining, LAMBDA o : o.side = BUY)))

\* held balance of t minus the size of the remaining resting SELLs on t
FreeInventory(t) ==
    last.balances[t]
        - SumSeq(MapSize(SelectSeq(Remaining, LAMBDA o : o.side = SELL /\ o.token = t)))

PlacedOn(side, t) == SelectSeq(last.place, LAMBDA o : o.side = side /\ o.token = t)

\* C1: in one get_orders cycle the notional (price x size) of all BUYs of the
\* place list, both pairs together, is at most the free collateral at cycle start.
C1_CollateralConserved ==
    last.op = "get_orders" =>
        SumSeq(MapNotional(SelectSeq(last.place, LAMBDA o : o.side = BUY)))
            <= FreeCollateralAtStart

\* C3: in one get_orders cycle, for each pair whose cancellation decision computes
\* targets, they are the (bid_target, ask_target) of the placement decision.
C3_SameTargetsInBothPhases ==
    last.op = "get_orders" =>
        \A t \in Tokens :
            last.cancel_targets[t] # <<>> =>
                last.cancel_targets[t][1] = last.place_targets[t]

\* C4: a get_orders cycle returns what the same call returns on an engine of the
\* same configuration that has run no cycle yet: the result depends on the order
\* list, the balances, the target prices and the configuration only.
C4_PureFunctionOfInputs ==
    last.op = "get_orders" =>
        LET fresh == get_orders(cfg, InitContext.balances, last.orders,
                                last.balances, last.target_prices)
        IN  last.cancel = fresh.cancel /\ last.place = fresh.place

\* C9: in one get_orders cycle a SELL placed on token T has size at most the free
\* inventory of T, so that resting SELLs on T that were covered by the held
\* balance before the cycle are still covered once the cycle's lists are applied.
C9_SellWithinFreeInventory ==
    last.op = "get_orders" =>
        \A t \in Tokens :
            /\ \A i \in DOMAIN PlacedOn(SELL, t) :
                   PlacedOn(SELL, t)[i].size <= FreeInventory(t)
            /\ (SumSeq(MapSize(SelectSeq(last.orders,
                        LAMBDA o : o.side = SELL /\ o.token = t))) <= last.balances[t]
                  => SumSeq(MapSize(PlacedOn(SELL, t))) <= FreeInventory(t))

---------------------------------------------------------------------------
(* SpecQuotes: _desired_quotes on every midpoint and half-spread *)

QuoteConfigs ==
    {[DefaultCfg EXCEPT !.target_spread = ts, !.half_spread_override = h] :
        ts \in {0, 4, 20, 30, 40}, h \in {<<>>, <<-10>>, <<0>>, <<4>>, <<20>>, <<600>>}}

\* midpoints from below the lower clamping bound to above the upper one
Mids == (0 - 40) .. (One + 40)

InitQuotes == InitWith(QuoteConfigs)

NextQuotes ==
    \/ \E mid \in Mids : DesiredQuotes(mid)
    \/ Return

SpecQuotes == InitQuotes /\ [][NextQuotes]_vars

\* C6: for every midpoint and every half-spread, _desired_quotes returns a pair
\* whose ask is strictly greater than its bid.
C6_AskAboveBid ==
    last.op = "desired_quotes" => last.quotes[2] > last.quotes[1]

---------------------------------------------------------------------------
(* SpecCancel: cancellable_orders on every order list of one token pair *)

CancelConfigs ==
    {[BaseCfg EXCEPT !.max_bids = n[1], !.max_asks = n[2], !.cancel_if_away_by = d] :
        n \in {<<0, 1>>, <<1, 2>>, <<2, 2>>}, d \in {8, 20}}

CancelContexts == {TokenBalances(0, 0), TokenBalances(40000, 0)}

\* <<side, price, size>> of the resting orders of a pair
CancelPool ==
    {<<BUY, 300, 15000>>, <<BUY, 470, 15000>>, <<BUY, 479, 15000>>,
     <<BUY, 480, 15000>>, <<SELL, 480, 15000>>, <<SELL, 474, 15000>>,
     <<SELL, 700, 15000>>}

CancelLists ==
    {PairOrders(l, t) : l \in SeqsUpTo(CancelPool, MaxOrders), t \in Tokens}

CancelTargetPrices == {500}

InitCancel == InitWith(CancelConfigs)

NextCancel ==
    \/ \E balances \in CancelContexts : SetContext(balances, 0)
    \/ \E orders \in CancelLists, target_price \in CancelTargetPrices :
            CancellableOrders(orders, target_price)
    \/ Return

SpecCancel == InitCancel /\ [][NextCancel]_vars

\* the input orders (by position) that the call returned
Cancelled == {i \in DOMAIN last.orders : Contains(last.cancel, last.orders[i])}

OnSide(side) == {i \in DOMAIN last.orders : last.orders[i].side = side}

MaxCount(side) == IF side = BUY THEN cfg.max_bids ELSE cfg.max_asks

\* C5: once the orders cancellable_orders returns are removed, at most max_bids
\* BUYs and at most max_asks SELLs of the pair survive.
C5_CountCapsRespected ==
    last.op = "cancellable_orders" =>
        \A side \in {BUY, SELL} :
            Cardinality(OnSide(side) \ Cancelled) <= MaxCount(side)

\* a call that had to trim: more BUYs than max_bids came in, some survive
C5_Witness ==
    /\ last.op = "cancellable_orders"
    /\ Cardinality(OnSide(BUY)) > cfg.max_bids
    /\ cfg.max_bids > 0
    /\ Cardinality(OnSide(BUY) \ Cancelled) = cfg.max_bids
    /\ OnSide(SELL) \ Cancelled # {}

\* the targets of the call, from the context the engine holds
CallTargets ==
    targets(cfg, mm.balances, last.target_price, deduce_buy_token(last.orders))

\* distance of input order i to its side's target, under the effective price Eff
Distance(i, Eff(_)) ==
    Abs(Eff(last.orders[i])
        - (IF last.orders[i].side = BUY THEN CallTargets[1] ELSE CallTargets[2]))

\* cancellable_orders returns exactly the far orders plus the excess orders, each
\* input order at most once; of the non-far orders of a side the MaxCount closest
\* survive, and no excess order is strictly closer than a survivor of its side
ExactlyFarPlusExcess(Eff(_)) ==
    last.op = "cancellable_orders" =>
        LET Far == {i \in DOMAIN last.orders :
                        Distance(i, Eff) > cfg.cancel_if_away_by}
            NonFar(side) == OnSide(side) \ Far
        IN  /\ \A k \in DOMAIN last.cancel : Contains(last.orders, last.cancel[k])
            /\ Len(last.cancel) = Cardinality(Cancelled)
            /\ Far \subseteq Cancelled
            /\ \A side \in {BUY, SELL} :
                /\ Cardinality(NonFar(side) \ Cancelled)
                       = Min(MaxCount(side), Cardinality(NonFar(side)))
                /\ \A x \in NonFar(side) \cap Cancelled, y \in NonFar(side) \ Cancelled :
                       Distance(y, Eff) <= Distance(x, Eff)

---------------------------------------------------------------------------
(* SpecPlace: new_orders on every context, order list and balance *)

PlaceConfigs ==
    {BaseCfg,
     [BaseCfg EXCEPT !.order_size = 20000],
     [BaseCfg EXCEPT !.max_notional_per_side = 6000000],
     [BaseCfg EXCEPT !.min_place_size = 20000]}

PlaceContexts ==
    {TokenBalances(0, 0), TokenBalances(32000, 0),
     TokenBalances(40000, 45006), TokenBalances(24994, 50000)}

\* <<side, price, size>> of the resting orders of the pair
PlacePool ==
    {<<BUY, 479, 15000>>, <<BUY, 300, 15000>>,
     <<SELL, 474, 15000>>, <<SELL, 700, 15000>>}

PlaceLists == SeqsUpTo(PlacePool, MaxOrders)

PlaceCollateral == {7203000, 100000000}

PlaceTokenBalances == {0, 50000}

PlaceTargetPrices == {500}

InitPlace == InitWith(PlaceConfigs)

NextPlace ==
    \/ \E balances \in PlaceContexts : SetContext(balances, 0)
    \/ \E l \in PlaceLists, collateral_balance \in PlaceCollateral,
          token_balance \in PlaceTokenBalances,
          target_price \in PlaceTargetPrices, buy_token \in Tokens :
            NewOrders(PairOrders(l, buy_token), collateral_balance, token_balance,
                      target_price, buy_token)
    \/ Return

SpecPlace == InitPlace /\ [][NextPlace]_vars

Placed(side) == SelectSeq(last.place, LAMBDA o : o.side = side)

\* C2: for every BUY new_orders places on buy_token, the holdings of buy_token plus
\* the order's size do not exceed max_inventory_per_token; no BUY is placed when
\* the holdings already meet or exceed max_inventory_per_token.
C2_InventoryCapRespected ==
    last.op = "new_orders" =>
        /\ \A i \in DOMAIN Placed(BUY) :
               mm.balances[last.buy_token] + Placed(BUY)[i].size
                   <= cfg.max_inventory_per_token
        /\ (mm.balances[last.buy_token] >= cfg.max_inventory_per_token
               => Placed(BUY) = <<>>)

\* C10: every BUY new_orders places has notional price x size at most
\* max_notional_per_side.
C10_NotionalCapRespected ==
    last.op = "new_orders" =>
        \A i \in DOMAIN Placed(BUY) :
            Placed(BUY)[i].price * Placed(BUY)[i].size <= cfg.max_notional_per_side

\* the targets of the call, from the context the engine holds
PlaceCallTargets ==
    targets(cfg, mm.balances, last.target_price, last.buy_token)

NearBuy ==
    \E i \in DOMAIN last.orders :
        /\ last.orders[i].side = BUY
        /\ Abs(last.orders[i].price - PlaceCallTargets[1]) <= MIN_TICK

NearSell ==
    \E i \in DOMAIN last.orders :
        /\ last.orders[i].side = SELL
        /\ Abs((One - last.orders[i].price) - PlaceCallTargets[2]) <= MIN_TICK

\* what the call returns when the orders of the other side are taken off its list
PlacedWithout(side) ==
    SelectSeq(new_orders(cfg, mm.balances,
                         SelectSeq(last.orders, LAMBDA o : o.side # side),
                         last.collateral_balance, last.token_balance,
                         last.target_price, last.buy_token),
              LAMBDA o : o.side # side)

============================================================================
